---- MODULE Spec2Model ----
(***************************************************************************)
(* Model of okx_dump.DataDumper (src/okx_dump/dump.py): the per-unit       *)
(* fetch / convert / cache coroutine _async_download_symbol_data with its  *)
(* tenacity retry decorator, the candle aggregator _aggregate_symbol_kline,*)
(* the driver dump_symbols / _dump_symbol_data that gathers one batch of  *)
(* coroutines per symbol on the instance's event loop, and the catalog of  *)
(* symbols the constructor keeps in the class attribute _info.             *)
(*                                                                         *)
(* A process is one run of a driver script (src/main.py).  Processes share *)
(* the file system under save_dir and nothing else.  Inside a process the  *)
(* event loop runs one coroutine at a time from one await to the next, so  *)
(* a coroutine that is inside a synchronous section holds the loop (cpu);  *)
(* steps of different processes interleave freely.                         *)
(***************************************************************************)
EXTENDS Integers, Sequences, FiniteSets, TLC

----------------------------------------------------------------------------
(* Bounds of the model *)

\* dates are day numbers 1..MaxDate
MaxDate == 2

\* number of times a process may be started again after it ended
MaxRestarts == 1

\* a trade artifact holds at most MaxTrades rows, in minutes 0..MaxMinute
MaxTrades == 3
MaxMinute == 3

\* number of DataDumper objects constructed in one process
MaxInstances == 2

(* Program constants *)

\* tenacity.stop_after_attempt(5)
StopAfterAttempt == 5
\* tenacity.wait_exponential(exp_base=2, multiplier=4, max=64)
WaitExpBase == 2
WaitMultiplier == 4
WaitMax == 64

Dates == 1..MaxDate
Procs == {"p1", "p2"}
None == "None"

\* the catalog symbols of the instance and the pseudo symbol of the
\* all-symbols funding kind (dump_symbols passes symbol="allswaprate")
CatalogSymbols == {"BTC", "ETH"}
AllSwapRate == "allswaprate"
AllSymbols == CatalogSymbols \cup {AllSwapRate}
Units == AllSymbols \X Dates
\* no unit: the loop is free
NoUnit == <<None, 0>>

\* data_type values accepted by dump_symbols
DataTypes == {"aggtrades", "trades", "swaprate", "swaprate-all", "klines"}

\* HTTP statuses the archive server may answer with
Statuses == {200, 404, 500, 502, 503, 504, 429, 408, 403}
RetryableStatuses == {500, 502, 503, 504, 429, 408}

\* asset_type values of DataDumper (28) and the keys of DataDumper._info
AssetTypes == {"spot", "swap", "future"}

Min(a, b) == IF a < b THEN a ELSE b
Max(a, b) == IF a > b THEN a ELSE b

RECURSIVE Pow(_, _)
Pow(b, e) == IF e = 0 THEN 1 ELSE b * Pow(b, e - 1)

\* the exponent taken from the attempt number instead of the number of
\* attempts before it
WaitExponential_FromAttempt(n) ==
    Max(0, Min(WaitMultiplier * Pow(WaitExpBase, n), WaitMax))

\* tenacity.wait_exponential.__call__: the sleep after attempt number n
WaitExponential(n) ==
    Max(0, Min(WaitMultiplier * Pow(WaitExpBase, n - 1), WaitMax))

\* tenacity's default retry predicate, retry_if_exception_type(Exception),
\* together with the explicit TryAgain: every exception is retried
ShouldRetry(exc) == TRUE

\* tenacity.stop_after_attempt
ShouldStop(attempt) == attempt >= StopAfterAttempt

----------------------------------------------------------------------------
VARIABLES
    disk,       \* [kind, unit] -> "absent" | "partial" | "complete"
    opener,     \* [kind, unit] -> the process that opened the file last, while
                \* it still has it open for writing; None otherwise
    dirs,       \* set of date directories that exist under save_dir
    dataType,   \* data_type argument of dump_symbols
    symbols,    \* self.symbols
    start_date, \* start_date argument of dump_symbols: <<d>>, <<>> for None
    end_date,   \* end_date argument of dump_symbols: <<d>>, <<>> for None
    dpc,        \* per process: where its driver stands
    symIdx,     \* per process: index in self.symbols of the for loop
    runs,       \* per process: how many times it was started
    task,       \* per process, per unit: the coroutine of that unit
    cpu,        \* per process: the unit whose coroutine holds the loop
    cached,     \* per process: the units whose artifact was there at its start
    trades,     \* the rows of a trade artifact, as pd.read_parquet gives them
    ohlcv,      \* the candle table _aggregate_symbol_kline builds from them
    kpc,        \* where the computation of the candle table stands
    _info,      \* DataDumper._info, the class attribute: asset_type -> the
                \* symbol ids of its catalog, in the order of the dict
    instances   \* the DataDumper objects constructed so far, in order

vars ==
    <<disk, opener, dirs, dataType, symbols, start_date, end_date, dpc, symIdx,
      runs, task, cpu, cached, trades, ohlcv, kpc, _info, instances>>

\* what a process is run with (the arguments of DataDumper and
\* dump_symbols) and found on disk when it started
args == <<dataType, symbols, start_date, end_date, cached>>

\* the candle computation
kline == <<trades, ohlcv, kpc>>

\* the catalogs of the class and the objects made with them
catalog == <<_info, instances>>

FileKinds == {"zip", "parquet", "kline"}
Files == FileKinds \X Units
DirKinds == {"download", "klines"}

\* the data_type _async_download_symbol_data is called with
DownloadType == IF dataType = "klines" THEN "aggtrades" ELSE dataType

\* zip_path / parquet_path (dump.py 177-179) and save_path (274)
ZipPath(u) == <<"zip", u>>
ParquetPath(u) == <<"parquet", u>>
KlinePath(u) == <<"kline", u>>
\* the artifact dump_symbols(data_type) is asked to produce for a unit
Artifact(u) == IF dataType = "klines" THEN KlinePath(u) ELSE ParquetPath(u)
DownloadDir(u) == <<"download", u[2]>>
KlineDir(u) == <<"klines", u[2]>>

\* A coroutine of one unit.  pc is the await or statement it stands at:
\*   new      created by _dump_symbol_data, not yet run
\*   get      awaiting session.get (186)
\*   stream   awaiting the next chunk, zip file open (202-206)
\*   read     awaiting response.read() (208)
\*   write    zip file open for the buffered content (209-210)
\*   parse    zip file closed, before pd.read_csv (211-261)
\*   convert  inside df.to_parquet(parquet_path)
\*   remove   before os.remove(zip_path) (262)
\*   sleep    tenacity sleeps before the next attempt
\*   agg      _aggregate_symbol_kline got a path (274-278)
\*   aggwrite inside ohlcv.to_parquet(save_path) (297)
\*   ok / notfound / skipped / failed: the coroutine ended
\* attempt is tenacity's attempt_number, waits the sleeps it has asked for,
\* status the HTTP status of the response of the current attempt (0: none
\* yet), exc the exception of the attempt that just failed, err what the
\* coroutine raised, reqs the GET requests it issued, onlyRetryable whether
\* every response it got so far had a status of the retry list (195).
NoTask ==
    [pc |-> "none", attempt |-> 0, waits |-> <<>>, status |-> 0, exc |-> None,
     err |-> None, reqs |-> 0, onlyRetryable |-> FALSE]

NewTask == [NoTask EXCEPT !.pc = "new"]

Terminal == {"ok", "notfound", "skipped", "failed"}
Suspended == {"new", "get", "stream", "read", "sleep"}

\* the event loop of p is running (run_until_complete, 349) and free
LoopFree(p) == dpc[p] = "gather" /\ cpu[p] = NoUnit
\* the loop of p takes the next event (a response, a chunk, a timer): it
\* does so only when no callback is ready, and the first step of every
\* coroutine of a batch is ready from the moment the batch is made
LoopPolls(p) == LoopFree(p) /\ \A u \in Units : task[p][u].pc # "new"
\* the coroutine of u is the one the loop of p is executing
Holds(p, u) == dpc[p] = "gather" /\ cpu[p] = u

\* tenacity's decision after an attempt raised exc: sleep and try again, or
\* give up with RetryError (reraise is not set), or let exc through
AfterException(t, exc) ==
    IF ~ShouldRetry(exc)
    THEN [t EXCEPT !.pc = "failed", !.exc = exc, !.err = exc]
    ELSE IF ShouldStop(t.attempt)
    THEN [t EXCEPT !.pc = "failed", !.exc = exc, !.err = "RetryError"]
    ELSE [t EXCEPT !.pc = "sleep", !.exc = exc,
                   !.waits = Append(@, WaitExponential(t.attempt))]

\* the classification with 404 among the statuses that are tried again
Classify_NotFoundRetried(status) ==
    IF status < 400 THEN "body"
    ELSE IF status \in RetryableStatuses \cup {404} THEN "TryAgain"
    ELSE "ClientResponseError"

\* the classification without the 404 branch
Classify_NoNotFound(status) ==
    IF status < 400 THEN "body"
    ELSE IF status \in RetryableStatuses THEN "TryAgain"
    ELSE "ClientResponseError"

\* the classification of a response status (187-198): what the attempt does
Classify(status) ==
    IF status < 400 THEN "body"
    ELSE IF status = 404 THEN "notfound"
    ELSE IF status \in RetryableStatuses THEN "TryAgain"
    ELSE "ClientResponseError"

\* a guard that never finds the artifact
GuardHit_Never(u) == FALSE

\* a guard that looks for the raw file instead of the artifact
GuardHit_Raw(u) == disk[ZipPath(u)] # "absent"

\* the cache guard (181): os.path.exists(parquet_path)
GuardHit(u) == disk[ParquetPath(u)] # "absent"

\* kinds whose payload is streamed to the zip file chunk by chunk (201)
Streamed == {"trades", "aggtrades"}

\* kinds for which a branch of 211-261 reads the zip file and writes the
\* artifact
Converted == {"aggtrades", "swaprate", "swaprate-all", "trades"}

\* a data_type outside the Literal of dump_symbols
InvalidKinds == {"orderbook"}

\* the pc at which a coroutine has the file open for writing
WritingPcs(f) ==
    CASE f[1] = "zip" -> {"stream", "write"}
      [] f[1] = "parquet" -> {"convert"}
      [] f[1] = "kline" -> {"aggwrite"}

\* a coroutine of another running process has file f open for writing: it
\* truncated the file when it opened it (mode "wb") and has not written
\* all of it yet
OtherWriter(p, f) ==
    \E q \in Procs \ {p} :
        dpc[q] \in {"loop", "gather"} /\ task[q][f[2]].pc \in WritingPcs(f)

\* what file f may hold when process p has written its last byte.  A file
\* removed meanwhile stays removed.  If no one opened the file after p did,
\* all of it was written since it was last truncated.  Otherwise a part of
\* what p wrote was cut off by the later open (mode "wb"): the file is as
\* the later writer has it, or whole already if that writer has got as far
\* as p had when it was cut off.
Closed(p, f) ==
    IF disk[f] = "absent" THEN {"absent"}
    ELSE IF opener[f] = p THEN {"complete"}
    ELSE {disk[f], "complete"}

\* process p opens file f with mode "wb": the file is created or truncated
Open(p, f) ==
    /\ disk' = [disk EXCEPT ![f] = "partial"]
    /\ opener' = [opener EXCEPT ![f] = p]

\* process p has written all it had to write to file f and closes it
Close(p, f) ==
    /\ \E c \in Closed(p, f) : disk' = [disk EXCEPT ![f] = c]
    /\ opener' = [opener EXCEPT ![f] = IF @ = p THEN None ELSE @]

\* process p closes the files it has open without writing the rest
Abandon(p) == [f \in Files |-> IF opener[f] = p THEN None ELSE opener[f]]

\* _async_download_symbol_data returned path to its caller: the gather of
\* the batch, or _aggregate_symbol_kline (266), which goes on synchronously
Returned(t) ==
    IF dataType = "klines" THEN [t EXCEPT !.pc = "agg", !.exc = None]
    ELSE [t EXCEPT !.pc = "ok", !.exc = None]

\* the loop is held while the coroutine stands inside a synchronous section
CpuAfter(u, t) == IF t.pc \in Suspended \cup Terminal THEN NoUnit ELSE u

Step(p, u, t) ==
    /\ task' = [task EXCEPT ![p][u] = t]
    /\ cpu' = [cpu EXCEPT ![p] = CpuAfter(u, t)]

----------------------------------------------------------------------------
(* _async_download_symbol_data, one attempt after the other *)

\* An attempt starts (177-186): the first one when the loop first runs the
\* coroutine, a later one when tenacity's sleep is over.  The cache guard
\* returns the path; otherwise the GET request is sent.
StartAttempt(p, u) ==
    LET t == task[p][u]
        a == [t EXCEPT !.attempt = @ + 1, !.status = 0, !.exc = None]
    IN  /\ LoopFree(p)
        /\ t.pc \in {"new", "sleep"}
        /\ t.pc = "sleep" => LoopPolls(p)
        /\ IF GuardHit(u)
           THEN Step(p, u, Returned(a))
           ELSE Step(p, u, [a EXCEPT !.pc = "get", !.reqs = @ + 1])
        /\ UNCHANGED <<disk, opener, dirs, args, kline, catalog, dpc, symIdx, runs>>

\* The response arrives (186-210).  404 returns None, a status of the retry
\* list raises TryAgain, any other error status raises the response error;
\* otherwise the directory is made and the zip file is opened (streamed
\* kinds) or the body is awaited (the funding kinds).
Respond(p, u) ==
    LET t == task[p][u] IN
    /\ LoopPolls(p)
    /\ t.pc = "get"
    /\ \E status \in Statuses :
        LET c == Classify(status)
            r == [t EXCEPT !.status = status, !.onlyRetryable =
                     IF t.attempt = 1 THEN c = "TryAgain" ELSE @ /\ c = "TryAgain"]
        IN  CASE c = "notfound" ->
                   /\ Step(p, u, [r EXCEPT !.pc = "notfound"])
                   /\ UNCHANGED <<disk, opener, dirs>>
              [] c \in {"TryAgain", "ClientResponseError"} ->
                   /\ Step(p, u, AfterException(r, c))
                   /\ UNCHANGED <<disk, opener, dirs>>
              [] c = "body" /\ DownloadType \in Streamed ->
                   /\ dirs' = dirs \cup {DownloadDir(u)}
                   /\ Open(p, ZipPath(u))
                   /\ Step(p, u, [r EXCEPT !.pc = "stream"])
              [] c = "body" /\ DownloadType \notin Streamed ->
                   /\ dirs' = dirs \cup {DownloadDir(u)}
                   /\ Step(p, u, [r EXCEPT !.pc = "read"])
                   /\ UNCHANGED <<disk, opener>>
    /\ UNCHANGED <<args, kline, catalog, dpc, symIdx, runs>>

\* The connection breaks while the coroutine awaits the response or its
\* body: aiohttp raises a client error, which tenacity treats as any other
\* exception.  A zip file open for streaming is closed as it is.
TransportError(p, u) ==
    LET t == task[p][u] IN
    /\ LoopPolls(p)
    /\ t.pc \in {"get", "stream", "read"}
    /\ Step(p, u, AfterException([t EXCEPT !.onlyRetryable = FALSE], "ClientError"))
    /\ opener' = Abandon(p)
    /\ UNCHANGED <<disk, dirs, args, kline, catalog, dpc, symIdx, runs>>

\* The last chunk is written and the zip file closed (202-206).
StreamEnd(p, u) ==
    LET t == task[p][u] IN
    /\ LoopPolls(p)
    /\ t.pc = "stream"
    /\ Close(p, ZipPath(u))
    /\ Step(p, u, [t EXCEPT !.pc = "parse"])
    /\ UNCHANGED <<dirs, args, kline, catalog, dpc, symIdx, runs>>

\* response.read() is over: the zip file is opened for the content (209).
ReadEnd(p, u) ==
    LET t == task[p][u] IN
    /\ LoopPolls(p)
    /\ t.pc = "read"
    /\ Open(p, ZipPath(u))
    /\ Step(p, u, [t EXCEPT !.pc = "write"])
    /\ UNCHANGED <<dirs, args, kline, catalog, dpc, symIdx, runs>>

\* The content is written and the zip file closed (210).
WriteEnd(p, u) ==
    LET t == task[p][u] IN
    /\ Holds(p, u)
    /\ t.pc = "write"
    /\ Close(p, ZipPath(u))
    /\ Step(p, u, [t EXCEPT !.pc = "parse"])
    /\ UNCHANGED <<dirs, args, kline, catalog, dpc, symIdx, runs>>

\* pd.read_csv(zip_path) and the timestamp column (212-221, 224-237, ...):
\* with the table built, df.to_parquet opens the artifact at its final path.
ParseOk(p, u) ==
    LET t == task[p][u] IN
    /\ Holds(p, u)
    /\ t.pc = "parse"
    /\ DownloadType \in Converted
    /\ disk[ZipPath(u)] = "complete"
    /\ Open(p, ParquetPath(u))
    /\ Step(p, u, [t EXCEPT !.pc = "convert"])
    /\ UNCHANGED <<dirs, args, kline, catalog, dpc, symIdx, runs>>

\* pd.read_csv or pd.to_datetime raises: the payload is not a table of the
\* kind, or the zip file is missing or cut short.  The zip file stays.
ParseFail(p, u) ==
    LET t == task[p][u] IN
    /\ Holds(p, u)
    /\ t.pc = "parse"
    /\ DownloadType \in Converted
    /\ Step(p, u, AfterException(t, "ParserError"))
    /\ UNCHANGED <<disk, opener, dirs, args, kline, catalog, dpc, symIdx, runs>>

\* No branch of 211-261 is for the data_type: nothing is read and no
\* artifact is written; the function goes on to os.remove (262).
NoConverter(p, u) ==
    LET t == task[p][u] IN
    /\ Holds(p, u)
    /\ t.pc = "parse"
    /\ DownloadType \notin Converted
    /\ Step(p, u, [t EXCEPT !.pc = "remove"])
    /\ UNCHANGED <<disk, opener, dirs, args, kline, catalog, dpc, symIdx, runs>>

\* df.to_parquet has written the whole table and closed the file.
ConvertEnd(p, u) ==
    LET t == task[p][u] IN
    /\ Holds(p, u)
    /\ t.pc = "convert"
    /\ Close(p, ParquetPath(u))
    /\ Step(p, u, [t EXCEPT !.pc = "remove"])
    /\ UNCHANGED <<dirs, args, kline, catalog, dpc, symIdx, runs>>

\* os.remove(zip_path) (262) and the return of parquet_path (263).
RemoveOk(p, u) ==
    LET t == task[p][u] IN
    /\ Holds(p, u)
    /\ t.pc = "remove"
    /\ disk[ZipPath(u)] # "absent"
    /\ disk' = [disk EXCEPT ![ZipPath(u)] = "absent"]
    /\ UNCHANGED opener
    /\ Step(p, u, Returned(t))
    /\ UNCHANGED <<dirs, args, kline, catalog, dpc, symIdx, runs>>

\* os.remove raises OSError: the file is gone, or the system refuses.
RemoveFail(p, u) ==
    LET t == task[p][u] IN
    /\ Holds(p, u)
    /\ t.pc = "remove"
    /\ Step(p, u, AfterException(t, "OSError"))
    /\ UNCHANGED <<disk, opener, dirs, args, kline, catalog, dpc, symIdx, runs>>

----------------------------------------------------------------------------
(* _aggregate_symbol_kline, after its download returned a path *)

\* 274-278 and 297: the directory of save_path is made; an existing candle
\* artifact ends the call (it returns None); otherwise the trade artifact is
\* read, resampled, and ohlcv.to_parquet opens the candle artifact.  A trade
\* artifact that is not a whole parquet file makes pd.read_parquet raise,
\* outside the retry decorator.
Aggregate(p, u) ==
    LET t == task[p][u] IN
    /\ Holds(p, u)
    /\ t.pc = "agg"
    /\ dirs' = dirs \cup {KlineDir(u)}
    /\ IF disk[KlinePath(u)] # "absent"
       THEN /\ Step(p, u, [t EXCEPT !.pc = "skipped"])
            /\ UNCHANGED <<disk, opener>>
       ELSE IF disk[ParquetPath(u)] # "complete"
       THEN /\ Step(p, u, [t EXCEPT !.pc = "failed", !.exc = "ArrowInvalid",
                                     !.err = "ArrowInvalid"])
            /\ UNCHANGED <<disk, opener>>
       ELSE /\ Open(p, KlinePath(u))
            /\ Step(p, u, [t EXCEPT !.pc = "aggwrite"])
    /\ UNCHANGED <<args, kline, catalog, dpc, symIdx, runs>>

\* ohlcv.to_parquet has written the candles; save_path is returned (298).
AggregateEnd(p, u) ==
    LET t == task[p][u] IN
    /\ Holds(p, u)
    /\ t.pc = "aggwrite"
    /\ Close(p, KlinePath(u))
    /\ Step(p, u, [t EXCEPT !.pc = "ok"])
    /\ UNCHANGED <<dirs, args, kline, catalog, dpc, symIdx, runs>>

----------------------------------------------------------------------------
(* The driver: dump_symbols and _dump_symbol_data *)

\* self._info[asset_type]: the validity window of each catalog symbol
\* (127-128); BTC is listed on every day, ETH from the last day on
Info ==
    [s \in CatalogSymbols |->
        IF s = "BTC" THEN [start_date |-> 1, end_date |-> MaxDate]
        ELSE [start_date |-> MaxDate, end_date |-> MaxDate]]

\* the defaults of the all-symbols kind (308-311): 2021-10-01 and yesterday
EpochDate == 1
Yesterday == MaxDate

\* a date list that takes the requested range as it is
DateList_NoClip(symbol, rs, re) ==
    IF dataType = "swaprate-all"
    THEN LET s == IF rs = <<>> THEN EpochDate ELSE rs[1]
             e == IF re = <<>> THEN Yesterday ELSE re[1]
         IN  {d \in Dates : s <= d /\ d <= e}
    ELSE LET w == Info[symbol]
             s == IF rs = <<>> THEN w.start_date ELSE rs[1]
             e == IF re = <<>> THEN w.end_date ELSE re[1]
         IN  {d \in Dates : s <= d /\ d <= e}

\* date_list of _dump_symbol_data (307-337) for start_date / end_date
\* arguments rs, re (<<>> when not given), for a symbol that passes the
\* catalog lookup
DateList(symbol, rs, re) ==
    IF dataType = "swaprate-all"
    THEN LET s == IF rs = <<>> THEN EpochDate ELSE rs[1]
             e == IF re = <<>> THEN Yesterday ELSE re[1]
         IN  {d \in Dates : s <= d /\ d <= e}
    ELSE LET w == Info[symbol]
             s == IF rs = <<>> THEN w.start_date ELSE rs[1]
             e == IF re = <<>> THEN w.end_date ELSE re[1]
         IN  IF s > e THEN {}
             ELSE {d \in Dates : Max(s, w.start_date) <= d
                                 /\ d <= Min(e, w.end_date)}

\* the catalog lookup (313-315) raises ValueError for an unknown symbol
RaisesValueError(symbol) ==
    dataType # "swaprate-all" /\ symbol \notin DOMAIN Info

\* the symbols dump_symbols goes through: the pseudo symbol alone for the
\* all-symbols kind (363-369), self.symbols otherwise (371)
Work == IF dataType = "swaprate-all" THEN <<AllSwapRate>> ELSE symbols

\* the batch run_until_complete is waiting for
Batch(p) == {u \in Units : u[1] = Work[symIdx[p]] /\ task[p][u].pc # "none"}

\* The next call of _dump_symbol_data: the date list, one coroutine per
\* date (339-347), and run_until_complete of their gather (349).  A symbol
\* outside the catalog raises ValueError, which the loop of dump_symbols
\* logs (379).  After the last symbol dump_symbols returns.
DumpNext(p) ==
    /\ dpc[p] = "loop"
    /\ IF symIdx[p] = Len(Work)
       THEN /\ dpc' = [dpc EXCEPT ![p] = "returned"]
            /\ UNCHANGED <<symIdx, task>>
       ELSE LET s == Work[symIdx[p] + 1] IN
                /\ symIdx' = [symIdx EXCEPT ![p] = @ + 1]
                /\ IF RaisesValueError(s)
                   THEN UNCHANGED <<dpc, task>>
                   ELSE /\ dpc' = [dpc EXCEPT ![p] = "gather"]
                        /\ task' = [task EXCEPT ![p] =
                               [u \in Units |->
                                  IF u[1] = s
                                     /\ u[2] \in DateList(s, start_date, end_date)
                                  THEN NewTask ELSE task[p][u]]]
    /\ UNCHANGED <<disk, opener, dirs, args, kline, catalog, runs, cpu>>

\* gather has taken the outcome of every coroutine of the batch that ended;
\* the frames of those coroutines, with their retry state, are gone
Reaped(p) ==
    [u \in Units |->
        IF u \in Batch(p) /\ task[p][u].pc \in Terminal
        THEN [NoTask EXCEPT !.pc = task[p][u].pc, !.err = task[p][u].err]
        ELSE task[p][u]]

\* Every coroutine of the batch returned: gather returns, and so does
\* _dump_symbol_data.
GatherReturn(p) ==
    /\ LoopFree(p)
    /\ \A u \in Batch(p) : task[p][u].pc \in Terminal \ {"failed"}
    /\ dpc' = [dpc EXCEPT ![p] = "loop"]
    /\ task' = [task EXCEPT ![p] = Reaped(p)]
    /\ UNCHANGED <<disk, opener, dirs, args, kline, catalog, symIdx, runs, cpu>>

\* A coroutine of the batch raised: tqdm.gather awaits the coroutines in
\* the order they complete and the exception leaves run_until_complete,
\* which stops the loop; the other coroutines stay as they are.  The loop
\* of dump_symbols logs the exception (379-380); the all-symbols branch
\* (364-369) has no handler and dump_symbols raises.
GatherRaise(p) ==
    /\ LoopFree(p)
    /\ \E u \in Batch(p) : task[p][u].pc = "failed"
    /\ dpc' = [dpc EXCEPT ![p] =
                 IF dataType = "swaprate-all" THEN "raised" ELSE "loop"]
    /\ task' = [task EXCEPT ![p] = Reaped(p)]
    /\ UNCHANGED <<disk, opener, dirs, args, kline, catalog, symIdx, runs, cpu>>

----------------------------------------------------------------------------
(* Processes *)

Ended == {"returned", "raised", "crashed"}

\* The process is killed: whatever it had open stays as it is on disk.
Crash(p) ==
    /\ dpc[p] \in {"loop", "gather"}
    /\ dpc' = [dpc EXCEPT ![p] = "crashed"]
    /\ opener' = Abandon(p)
    /\ UNCHANGED <<disk, dirs, args, kline, catalog, symIdx, runs, task, cpu>>

\* The script is run again with the same arguments: a new DataDumper, a
\* new loop, and the files the earlier run left, closed when it ended.
Restart(p) ==
    /\ dpc[p] \in Ended
    /\ runs[p] <= MaxRestarts
    /\ runs' = [runs EXCEPT ![p] = @ + 1]
    /\ dpc' = [dpc EXCEPT ![p] = "loop"]
    /\ symIdx' = [symIdx EXCEPT ![p] = 0]
    /\ task' = [task EXCEPT ![p] = [u \in Units |-> NoTask]]
    /\ cpu' = [cpu EXCEPT ![p] = NoUnit]
    /\ cached' = [cached EXCEPT ![p] =
                    {u \in Units : disk[Artifact(u)] # "absent"}]
    /\ opener' = Abandon(p)
    /\ UNCHANGED <<disk, dirs, dataType, symbols, start_date, end_date, kline, catalog>>

----------------------------------------------------------------------------
(* One process dumping two symbols for one day, and run again *)

InitCommon ==
    /\ disk = [f \in Files |-> "absent"]
    /\ opener = [f \in Files |-> None]
    /\ dirs = {}
    /\ symIdx = [p \in Procs |-> 0]
    /\ task = [p \in Procs |-> [u \in Units |-> NoTask]]
    /\ cpu = [p \in Procs |-> NoUnit]
    /\ cached = [p \in Procs |-> {}]
    /\ trades = <<>>
    /\ ohlcv = <<>>
    /\ kpc = "off"
    /\ _info = [a \in AssetTypes |-> <<>>]
    /\ instances = <<>>

Init ==
    /\ InitCommon
    /\ dataType \in DataTypes
    /\ symbols = <<"BTC", "ETH">>
    /\ start_date \in {<<d>> : d \in Dates}
    /\ end_date = start_date
    /\ dpc = [p \in Procs |-> IF p = "p1" THEN "loop" ELSE "off"]
    /\ runs = [p \in Procs |-> IF p = "p1" THEN 1 ELSE 0]

Coroutine(p, u) ==
    \/ StartAttempt(p, u)
    \/ Respond(p, u)
    \/ TransportError(p, u)
    \/ StreamEnd(p, u)
    \/ ReadEnd(p, u)
    \/ WriteEnd(p, u)
    \/ ParseOk(p, u)
    \/ ParseFail(p, u)
    \/ ConvertEnd(p, u)
    \/ RemoveOk(p, u)
    \/ RemoveFail(p, u)
    \/ Aggregate(p, u)
    \/ AggregateEnd(p, u)

Driver(p) ==
    \/ DumpNext(p)
    \/ GatherReturn(p)
    \/ GatherRaise(p)

Next ==
    \E p \in Procs :
        \/ Driver(p)
        \/ \E u \in Units : Coroutine(p, u)
        \/ Restart(p)

Spec == Init /\ [][Next]_vars

----------------------------------------------------------------------------
(* One process dumping two symbols over the whole window of each: every    *)
(* batch holds one coroutine per day.                                      *)

InitBatch ==
    /\ InitCommon
    /\ dataType \in DataTypes
    /\ symbols = <<"BTC", "ETH">>
    /\ start_date = <<>>
    /\ end_date = <<>>
    /\ dpc = [p \in Procs |-> IF p = "p1" THEN "loop" ELSE "off"]
    /\ runs = [p \in Procs |-> IF p = "p1" THEN 1 ELSE 0]

\* the steps of a coroutine when connections hold once the response has
\* come, payloads parse and files can be removed: the server's status is
\* the only thing that can go wrong
CoroutineServed(p, u) ==
    \/ StartAttempt(p, u)
    \/ Respond(p, u)
    \/ StreamEnd(p, u)
    \/ ReadEnd(p, u)
    \/ WriteEnd(p, u)
    \/ ParseOk(p, u)
    \/ ConvertEnd(p, u)
    \/ RemoveOk(p, u)
    \/ Aggregate(p, u)
    \/ AggregateEnd(p, u)

NextBatch ==
    \E p \in Procs :
        \/ Driver(p)
        \/ \E u \in Units : CoroutineServed(p, u)

SpecBatch == InitBatch /\ [][NextBatch]_vars

----------------------------------------------------------------------------
(* One process dumping one symbol for two days: a batch of two sibling     *)
(* coroutines.                                                             *)

InitPair ==
    /\ InitCommon
    /\ dataType \in DataTypes
    /\ symbols = <<"BTC">>
    /\ start_date = <<1>>
    /\ end_date = <<2>>
    /\ dpc = [p \in Procs |-> IF p = "p1" THEN "loop" ELSE "off"]
    /\ runs = [p \in Procs |-> IF p = "p1" THEN 1 ELSE 0]

SpecPair == InitPair /\ [][NextBatch]_vars

----------------------------------------------------------------------------
(* One process calling dump_symbols with a data_type that is none of the   *)
(* kinds of the Literal, for one symbol and one day, and run again.        *)

InitKind ==
    /\ InitCommon
    /\ dataType \in InvalidKinds
    /\ symbols = <<"BTC">>
    /\ start_date = <<1>>
    /\ end_date = <<1>>
    /\ dpc = [p \in Procs |-> IF p = "p1" THEN "loop" ELSE "off"]
    /\ runs = [p \in Procs |-> IF p = "p1" THEN 1 ELSE 0]

\* the steps a coroutine can take for such a data_type: it is not a
\* streamed kind (201) and has no converter
CoroutineKind(p, u) ==
    \/ StartAttempt(p, u)
    \/ Respond(p, u)
    \/ TransportError(p, u)
    \/ ReadEnd(p, u)
    \/ WriteEnd(p, u)
    \/ NoConverter(p, u)
    \/ RemoveOk(p, u)
    \/ RemoveFail(p, u)

NextKind ==
    \E p \in Procs :
        \/ Driver(p)
        \/ \E u \in Units : CoroutineKind(p, u)
        \/ Restart(p)

SpecKind == InitKind /\ [][NextKind]_vars

----------------------------------------------------------------------------
(* The catalogs: DataDumper objects constructed one after the other in one *)
(* process, each with an asset type and a quote currency filter.           *)

\* data["datasets"]["symbols"] of the exchange of an asset type (95-100):
\* symbol ids split at "-"; the first entry is the one the loop skips
Dataset(asset_type) ==
    CASE asset_type = "spot" ->
           <<<<"SPOT">>, <<"BTC", "USDT">>, <<"BTC", "USDC">>, <<"ETH", "USDT">>>>
      [] asset_type = "swap" ->
           <<<<"PERPETUALS">>, <<"BTC", "USDT", "SWAP">>, <<"BTC", "USD", "SWAP">>>>
      [] asset_type = "future" ->
           <<<<"FUTURES">>, <<"BTC", "USD", "240329">>, <<"BTC", "USDT", "240329">>>>

\* quote_currency arguments
QuoteCurrencies == {None, "USDT", "USDC", "USD"}

\* symbol_info["quote"] (129-139): the last part of a spot id, the second
\* part of a swap or future id
Quote(asset_type, id) == IF asset_type = "spot" THEN id[Len(id)] ELSE id[2]

\* the symbols the loop of get_exchange_info keeps (100, 140-141)
Filtered(asset_type, quote_currency) ==
    LET Keep(id) == quote_currency = None \/ quote_currency = Quote(asset_type, id)
    IN  SelectSeq(Tail(Dataset(asset_type)), Keep)

\* get_exchange_info (80-143): the catalog the class holds for the asset
\* type if it is not empty (85-86), the filtered download otherwise
GetExchangeInfo(asset_type, quote_currency) ==
    IF _info[asset_type] # <<>> THEN _info[asset_type]
    ELSE Filtered(asset_type, quote_currency)

\* DataDumper(asset_type, quote_currency=...) with symbols=None (26-67):
\* the catalog is stored in the class attribute (52) and its keys become
\* self.symbols (57)
Construct(asset_type, quote_currency) ==
    LET info == GetExchangeInfo(asset_type, quote_currency) IN
    /\ Len(instances) < MaxInstances
    /\ _info' = [_info EXCEPT ![asset_type] = info]
    /\ instances' = Append(instances,
                           [asset_type |-> asset_type,
                            quote_currency |-> quote_currency,
                            symbols |-> info])
    /\ UNCHANGED <<disk, opener, dirs, args, kline, dpc, symIdx, runs, task, cpu>>

InitCatalog ==
    /\ InitCommon
    /\ dataType = "trades"
    /\ symbols = <<>>
    /\ start_date = <<>>
    /\ end_date = <<>>
    /\ dpc = [p \in Procs |-> "off"]
    /\ runs = [p \in Procs |-> 0]

NextCatalog ==
    \E asset_type \in AssetTypes : \E quote_currency \in QuoteCurrencies :
        Construct(asset_type, quote_currency)

SpecCatalog == InitCatalog /\ [][NextCatalog]_vars

\* the ids of a catalog
Ids(info) == {info[i] : i \in 1..Len(info)}

\* the ids a filter lets through, of all the ids of an asset type
Matching(asset_type, quote_currency) ==
    {id \in Ids(Tail(Dataset(asset_type))) :
        quote_currency = None \/ Quote(asset_type, id) = quote_currency}

\* C19 as stated: for every object constructed, its default symbol list and
\* the catalog it works with (the class attribute of its asset type) hold
\* only symbols whose quote currency is the object's filter, and all the
\* symbols of the asset type when it has no filter, whatever the filters of
\* the objects constructed before it.
C19_FilterPerInstance ==
    \A i \in 1..Len(instances) :
        LET inst == instances[i]
            ok == Matching(inst.asset_type, inst.quote_currency)
        IN  /\ Ids(inst.symbols) \subseteq ok
            /\ Ids(_info[inst.asset_type]) \subseteq ok
            /\ inst.quote_currency = None => Ids(inst.symbols) = ok

----------------------------------------------------------------------------
(* The dispatch of _dump_symbol_data for one catalog symbol and any        *)
(* requested range: the date list and the coroutines made from it, up to   *)
(* run_until_complete.                                                     *)

\* the dates a caller may ask for: also the day before the first date of
\* the catalog and the day after the last
RequestDates == 0..(MaxDate + 1)

InitDispatch ==
    /\ InitCommon
    /\ dataType \in DataTypes
    /\ symbols \in {<<s>> : s \in CatalogSymbols}
    /\ start_date \in {<<>>} \cup {<<d>> : d \in RequestDates}
    /\ end_date \in {<<>>} \cup {<<d>> : d \in RequestDates}
    /\ dpc = [p \in Procs |-> IF p = "p1" THEN "loop" ELSE "off"]
    /\ runs = [p \in Procs |-> IF p = "p1" THEN 1 ELSE 0]

NextDispatch == \E p \in Procs : DumpNext(p)

SpecDispatch == InitDispatch /\ [][NextDispatch]_vars

----------------------------------------------------------------------------
(* One process, run for one symbol and one day, that may be killed at any  *)
(* step and is then run again.                                             *)

InitCrash ==
    /\ InitCommon
    /\ dataType \in DataTypes
    /\ symbols = <<"BTC">>
    /\ start_date = <<1>>
    /\ end_date = <<1>>
    /\ dpc = [p \in Procs |-> IF p = "p1" THEN "loop" ELSE "off"]
    /\ runs = [p \in Procs |-> IF p = "p1" THEN 1 ELSE 0]

NextCrash ==
    \E p \in Procs :
        \/ Driver(p)
        \/ \E u \in Units : Coroutine(p, u)
        \/ Crash(p)
        \/ Restart(p)

SpecCrash == InitCrash /\ [][NextCrash]_vars

----------------------------------------------------------------------------
(* Two processes run at the same time with the same arguments, for one     *)
(* symbol and one day: two executions of the same unit.                    *)

InitRace ==
    /\ InitCommon
    /\ dataType \in DataTypes
    /\ symbols = <<"BTC">>
    /\ start_date = <<1>>
    /\ end_date = <<1>>
    /\ dpc = [p \in Procs |-> "loop"]
    /\ runs = [p \in Procs |-> 1]

NextRace ==
    \E p \in Procs :
        \/ Driver(p)
        \/ \E u \in Units : Coroutine(p, u)

SpecRace == InitRace /\ [][NextRace]_vars

----------------------------------------------------------------------------
(* The same two processes when the archive serves every file and nothing   *)
(* fails by itself: an attempt only raises over what the other execution   *)
(* did to the files they share.                                            *)

\* the archive answers the request with the file
RespondOk(p, u) == Respond(p, u) /\ task'[p][u].status = 200

\* pd.read_csv raises because the zip file is cut short or gone
ParseTorn(p, u) == disk[ZipPath(u)] # "complete" /\ ParseFail(p, u)

\* os.remove raises FileNotFoundError
RemoveGone(p, u) == disk[ZipPath(u)] = "absent" /\ RemoveFail(p, u)

CoroutineShared(p, u) ==
    \/ StartAttempt(p, u)
    \/ RespondOk(p, u)
    \/ StreamEnd(p, u)
    \/ ReadEnd(p, u)
    \/ WriteEnd(p, u)
    \/ ParseOk(p, u)
    \/ ParseTorn(p, u)
    \/ ConvertEnd(p, u)
    \/ RemoveOk(p, u)
    \/ RemoveGone(p, u)
    \/ Aggregate(p, u)
    \/ AggregateEnd(p, u)

NextShared ==
    \E p \in Procs :
        \/ Driver(p)
        \/ \E u \in Units : CoroutineShared(p, u)

SpecShared == InitRace /\ [][NextShared]_vars

----------------------------------------------------------------------------
(* The candle table of _aggregate_symbol_kline (278-297), computed from    *)
(* the rows of a trade artifact.                                           *)

\* resample("1min"): the width of a bucket, in seconds
SecondsPerMinute == 60
\* the value pandas gives an aggregate of no rows
NaN == -1

\* the minutes of the UTC day of a date (1440 of them in the archive's day)
DayMinutes == 0..MaxMinute

\* the timestamps a row of a trade artifact may have: second of the day
TradeTimes ==
    {SecondsPerMinute * m + o : m \in DayMinutes, o \in {10, 45}}
\* price and size of a row
PriceSizes == {<<100, 1>>, <<105, 2>>, <<95, 3>>}

\* the timestamp column of an artifact of n rows: the converter sorted the
\* rows by timestamp (221)
SortedTimes(n) ==
    {t \in [1..n -> TradeTimes] : \A i \in 2..n : t[i - 1] <= t[i]}

\* the artifact with timestamps t and prices and sizes q
TradeArtifact(t, q) ==
    [i \in DOMAIN t |-> [ts |-> t[i], price |-> q[i][1], size |-> q[i][2]]]

MinuteOf(ts) == ts \div SecondsPerMinute

RECURSIVE SumSize(_)
SumSize(rows) ==
    IF rows = <<>> THEN 0 ELSE rows[1].size + SumSize(Tail(rows))

PriceSet(rows) == {rows[i].price : i \in 1..Len(rows)}
MaxPrice(rows) == CHOOSE x \in PriceSet(rows) : \A y \in PriceSet(rows) : y <= x
MinPrice(rows) == CHOOSE x \in PriceSet(rows) : \A y \in PriceSet(rows) : x <= y

\* the rows of df whose timestamp falls in minute m, in the order of df
BucketRows(df, m) ==
    LET InBucket(t) == MinuteOf(t.ts) = m IN SelectSeq(df, InBucket)

\* a bucket whose high is the price of its first row
Candle_HighFirst(df, m) ==
    LET rows == BucketRows(df, m) IN
    IF rows = <<>>
    THEN [minute |-> m, open |-> NaN, high |-> NaN, low |-> NaN,
          close |-> NaN, volume |-> 0]
    ELSE [minute |-> m, open |-> rows[1].price, high |-> rows[1].price,
          low |-> MinPrice(rows), close |-> rows[Len(rows)].price,
          volume |-> SumSize(rows)]

\* price first / max / min / last and size sum of one bucket (282-289)
Candle(df, m) ==
    LET rows == BucketRows(df, m) IN
    IF rows = <<>>
    THEN [minute |-> m, open |-> NaN, high |-> NaN, low |-> NaN,
          close |-> NaN, volume |-> 0]
    ELSE [minute |-> m, open |-> rows[1].price, high |-> MaxPrice(rows),
          low |-> MinPrice(rows), close |-> rows[Len(rows)].price,
          volume |-> SumSize(rows)]

\* df.set_index("timestamp").resample("1min").agg(...) (279-289): one row
\* for every minute from that of the first row of df to that of the last
Resample(df) ==
    IF df = <<>> THEN <<>>
    ELSE LET first == MinuteOf(df[1].ts)
             last == MinuteOf(df[Len(df)].ts)
         IN  [i \in 1..(last - first + 1) |-> Candle(df, first + i - 1)]

\* ohlcv["close"].shift(1): the close column one row down
ShiftedClose(t, i) == IF i = 1 THEN NaN ELSE t[i - 1].close

\* rows without volume get the shifted close in open, high, low and close
\* (291-294); the right-hand side is taken from the table before the
\* assignment
GapFill(t) ==
    [i \in 1..Len(t) |->
        IF t[i].volume = 0 \/ t[i].volume = NaN
        THEN [t[i] EXCEPT !.open = ShiftedClose(t, i),
                          !.high = ShiftedClose(t, i),
                          !.low = ShiftedClose(t, i),
                          !.close = ShiftedClose(t, i)]
        ELSE t[i]]

\* ohlcv["volume"].fillna(0) (295)
FillVolume(t) ==
    [i \in 1..Len(t) |->
        IF t[i].volume = NaN THEN [t[i] EXCEPT !.volume = 0] ELSE t[i]]

KlineResample ==
    /\ kpc = "read"
    /\ ohlcv' = Resample(trades)
    /\ kpc' = "resampled"
    /\ UNCHANGED <<disk, opener, dirs, args, catalog, dpc, symIdx, runs, task, cpu,
                   trades>>

KlineGapFill ==
    /\ kpc = "resampled"
    /\ ohlcv' = GapFill(ohlcv)
    /\ kpc' = "filled"
    /\ UNCHANGED <<disk, opener, dirs, args, catalog, dpc, symIdx, runs, task, cpu,
                   trades>>

KlineFillVolume ==
    /\ kpc = "filled"
    /\ ohlcv' = FillVolume(ohlcv)
    /\ kpc' = "written"
    /\ UNCHANGED <<disk, opener, dirs, args, catalog, dpc, symIdx, runs, task, cpu,
                   trades>>

InitKline ==
    /\ disk = [f \in Files |-> "absent"]
    /\ opener = [f \in Files |-> None]
    /\ dirs = {}
    /\ dataType = "klines"
    /\ symbols = <<"BTC">>
    /\ start_date = <<>>
    /\ end_date = <<>>
    /\ dpc = [p \in Procs |-> "off"]
    /\ symIdx = [p \in Procs |-> 0]
    /\ runs = [p \in Procs |-> 0]
    /\ task = [p \in Procs |-> [u \in Units |-> NoTask]]
    /\ cpu = [p \in Procs |-> NoUnit]
    /\ cached = [p \in Procs |-> {}]
    /\ \E n \in 0..MaxTrades :
          \E t \in SortedTimes(n) : \E q \in [1..n -> PriceSizes] :
              trades = TradeArtifact(t, q)
    /\ ohlcv = <<>>
    /\ kpc = "read"
    /\ _info = [a \in AssetTypes |-> <<>>]
    /\ instances = <<>>

NextKline ==
    \/ KlineResample
    \/ KlineGapFill
    \/ KlineFillVolume

SpecKline == InitKline /\ [][NextKline]_vars

\* C10 as stated: in the candle table written, every row without volume
\* but the first has open, high, low and close equal to the close of the
\* row before it in that table, also after another row without volume.
C10_GapFill ==
    kpc = "written"
    => \A i \in 2..Len(ohlcv) :
          ohlcv[i].volume = 0
          => /\ ohlcv[i].open = ohlcv[i - 1].close
             /\ ohlcv[i].high = ohlcv[i - 1].close
             /\ ohlcv[i].low = ohlcv[i - 1].close
             /\ ohlcv[i].close = ohlcv[i - 1].close

\* the rows of the candle table written for minute m
RowsOf(m) == {i \in 1..Len(ohlcv) : ohlcv[i].minute = m}

\* the trades of the artifact whose timestamp, cut to the minute, is m
TradesIn(m) == {i \in 1..Len(trades) : trades[i].ts \div SecondsPerMinute = m}

\* C11 as stated: the candle table written for a trade artifact that is not
\* empty has exactly one row for every minute of the day, also for the
\* minutes before the first trade and after the last, and a minute without
\* trades has volume 0.
C11_FullDay ==
    (kpc = "written" /\ trades # <<>>)
    => /\ Len(ohlcv) = Cardinality(DayMinutes)
       /\ \A m \in DayMinutes :
             /\ Cardinality(RowsOf(m)) = 1
             /\ TradesIn(m) = {} => \A i \in RowsOf(m) : ohlcv[i].volume = 0

RECURSIVE SizeTotal(_)
SizeTotal(S) ==
    IF S = {} THEN 0
    ELSE LET i == CHOOSE x \in S : TRUE IN trades[i].size + SizeTotal(S \ {i})

\* C12: bucket aggregation.  For every minute with at least one trade the
\* candle table written has exactly one row, whose open is the price of the
\* first trade of the minute in timestamp order, close that of the last,
\* high the largest price, low the smallest, and volume the sum of the
\* sizes of exactly the trades of that minute.
C12_BucketAggregation ==
    kpc = "written"
    => \A m \in DayMinutes :
          LET S == TradesIn(m) IN
          S # {}
          => /\ Cardinality(RowsOf(m)) = 1
             /\ \A r \in RowsOf(m) :
                   /\ \E i \in S : /\ \A j \in S : i <= j
                                   /\ ohlcv[r].open = trades[i].price
                   /\ \E i \in S : /\ \A j \in S : j <= i
                                   /\ ohlcv[r].close = trades[i].price
                   /\ \E i \in S : ohlcv[r].high = trades[i].price
                   /\ \A i \in S : trades[i].price <= ohlcv[r].high
                   /\ \E i \in S : ohlcv[r].low = trades[i].price
                   /\ \A i \in S : ohlcv[r].low <= trades[i].price
                   /\ ohlcv[r].volume = SizeTotal(S)

\* C12 witness: the table written for trades of price 100, size 1 at
\* 00:00:10 and price 105, size 2 at 00:00:45 and a later trade at a
\* higher price in another minute.
C12_Witness ==
    /\ kpc = "written"
    /\ Len(trades) = 3
    /\ trades[1] = [ts |-> 10, price |-> 100, size |-> 1]
    /\ trades[2] = [ts |-> 45, price |-> 105, size |-> 2]
    /\ trades[3].ts >= 2 * SecondsPerMinute
    /\ ohlcv[1] = [minute |-> 0, open |-> 100, high |-> 105, low |-> 100,
                   close |-> 105, volume |-> 3]

----------------------------------------------------------------------------
(* Properties of the dispatch *)

\* the dates for which process p has a coroutine of symbol s not yet run
Dispatched(p, s) == {u[2] : u \in {v \in Units : v[1] = s /\ task[p][v].pc = "new"}}

\* the lower and the upper end of the requested range cut to the window w
ClipLow(w) ==
    IF start_date = <<>> THEN w.start_date
    ELSE IF start_date[1] > w.start_date THEN start_date[1] ELSE w.start_date
ClipHigh(w) ==
    IF end_date = <<>> THEN w.end_date
    ELSE IF end_date[1] < w.end_date THEN end_date[1] ELSE w.end_date

\* C13: date clipping.  When _dump_symbol_data is called for a catalog
\* symbol with validity window [vs, ve] and requested range [rs, re], the
\* coroutines it makes are one for each date d with max(rs, vs) <= d <=
\* min(re, ve) and no other; when range and window are disjoint it makes
\* none; in both cases it raises nothing and goes on to the gather.
C13_DateClipping ==
    [][\A p \in Procs :
          (symIdx'[p] = symIdx[p] + 1 /\ dataType # "swaprate-all")
          => LET s == Work[symIdx'[p]]
                 w == Info[s]
             IN  /\ dpc'[p] = "gather"
                 /\ \A u \in Units :
                       IF /\ u[1] = s
                          /\ ClipLow(w) <= u[2]
                          /\ u[2] <= ClipHigh(w)
                       THEN task'[p][u] = NewTask
                       ELSE task'[p][u] = task[p][u]]_vars

\* C13 witness: a request that starts before the window of ETH and ends
\* after it was cut to the window: one coroutine, for the day of the window.
C13_Witness ==
    /\ symbols = <<"ETH">>
    /\ dataType = "trades"
    /\ start_date = <<0>>
    /\ end_date = <<MaxDate + 1>>
    /\ dpc["p1"] = "gather"
    /\ Dispatched("p1", "ETH") = {Info["ETH"].start_date}

----------------------------------------------------------------------------
(* Properties of a batch *)

\* the symbols dump_symbols goes through before symbol s
EarlierSymbols(s) ==
    {Work[i] : i \in {j \in 1..Len(Work) : \E k \in (j + 1)..Len(Work) : Work[k] = s}}

\* C16 as stated: a coroutine of a later symbol is created or takes a step
\* only when every coroutine of every earlier symbol has ended, also after
\* a coroutine of the earlier symbol failed.
C16_SequentialDrain ==
    [][\A p \in Procs : \A v \in Units :
          task'[p][v] # task[p][v]
          => \A u \in Units :
                u[1] \in EarlierSymbols(v[1])
                => task[p][u].pc \in Terminal \cup {"none"}]_vars

\* C14: not found reaches the candle aggregator as a non-error.  When the
\* aggregated-trade fetch of a candle unit is answered 404, the unit ends
\* in that step with nothing raised; the step writes no candle artifact,
\* creates no file and no directory, leaves every sibling coroutine and the
\* driver as they are, and the unit stays ended without an error.
C14_NotFoundAggregate ==
    [][\A p \in Procs : \A u \in Units :
          (dataType = "klines" /\ task'[p][u].status = 404)
          => /\ task'[p][u].pc = "notfound"
             /\ task'[p][u].exc = None
             /\ task'[p][u].err = None
             /\ disk'[KlinePath(u)] = "absent"
             /\ task[p][u].pc # "notfound"
                => /\ task[p][u].pc = "get"
                   /\ disk' = disk
                   /\ dirs' = dirs
                   /\ dpc' = dpc
                   /\ \A v \in Units \ {u} : task'[p][v] = task[p][v]]_vars

\* C14 witness: of two sibling candle units one ended not found, nothing
\* exists on disk for it, and the other wrote its candle artifact.
C14_Witness ==
    \E u \in Units : \E v \in Units \ {u} :
        /\ dataType = "klines"
        /\ task["p1"][u].pc = "notfound"
        /\ task["p1"][u].status = 404
        /\ \A k \in FileKinds : disk[<<k, u>>] = "absent"
        /\ task["p1"][v].pc = "ok"
        /\ disk[KlinePath(v)] = "complete"

----------------------------------------------------------------------------
(* Properties of one process (Spec) *)

\* C8 as stated: when dump_symbols has returned (or raised), every
\* coroutine it created has ended: a failed unit leaves no sibling of its
\* batch unfinished.
C8_SiblingsFinish ==
    \A p \in Procs :
        dpc[p] \in {"returned", "raised"}
        => \A u \in Units : task[p][u].pc \in Terminal \cup {"none"}

\* C3 as stated: once the process has been killed, no file at a final
\* artifact path is cut short, and a later run's guard has found no unit
\* done whose artifact is not whole.
C3_CrashAtomic ==
    \A p \in Procs :
        /\ dpc[p] = "crashed"
           => \A u \in Units : /\ disk[ParquetPath(u)] # "partial"
                               /\ disk[KlinePath(u)] # "partial"
        /\ \A u \in cached[p] : disk[Artifact(u)] = "complete"

\* a step in which process q looks at the trade artifact of u: the cache
\* guard (181) or pd.read_parquet of the aggregator (278)
ReadsArtifact(q, u) ==
    \/ /\ task[q][u].pc \in {"new", "sleep"}
       /\ task'[q][u].attempt = task[q][u].attempt + 1
    \/ /\ task[q][u].pc = "agg"
       /\ task'[q][u].pc # "agg"
       /\ disk[KlinePath(u)] = "absent"

\* C4 as stated: no execution looks at the artifact of a unit while another
\* execution has written only a part of it.
C4_ReaderIsolation ==
    [][\A q \in Procs : \A u \in Units :
          ReadsArtifact(q, u)
          => ~(/\ disk[ParquetPath(u)] = "partial"
               /\ OtherWriter(q, ParquetPath(u)))]_vars

\* C15 as stated: when two executions work on the same unit and nothing
\* fails but through what they do to each other, no call of
\* _async_download_symbol_data gives up, and once both processes have
\* returned the artifact of the unit is there and whole.
C15_RaceHarmless ==
    /\ \A p \in Procs : \A u \in Units : task[p][u].err # "RetryError"
    /\ (\A p \in Procs : dpc[p] = "returned")
       => \A u \in Units :
             (\E p \in Procs : task[p][u].pc # "none")
             => disk[ParquetPath(u)] = "complete"

\* C17 as stated: when a coroutine has ended, whatever its outcome (also
\* when the delete of the raw file failed), the raw file and the converted
\* artifact of its unit are not both on disk, and after a conversion that
\* returned the path the raw file is gone.
C17_RawCleanup ==
    \A p \in Procs : \A u \in Units :
        task[p][u].pc \in Terminal
        => /\ ~(disk[ZipPath(u)] # "absent" /\ disk[ParquetPath(u)] # "absent")
           /\ task[p][u].pc = "ok" => disk[ZipPath(u)] = "absent"

\* C18 as stated: a dump for a data_type that is none of the enumerated
\* kinds sends no request, writes no file and makes no directory.
C18_KindRejected ==
    dataType \notin DataTypes
    => /\ \A p \in Procs : \A u \in Units : task[p][u].reqs = 0
       /\ \A f \in Files : disk[f] = "absent"
       /\ dirs = {}

\* the files and directories of unit u are the same after the step
UnitFilesUnchanged(u) ==
    /\ \A k \in FileKinds : disk'[<<k, u>>] = disk[<<k, u>>]
    /\ (DownloadDir(u) \in dirs') = (DownloadDir(u) \in dirs)
    /\ (KlineDir(u) \in dirs') = (KlineDir(u) \in dirs)

\* C1: cache guard.  When an attempt of _async_download_symbol_data starts
\* and the converted artifact exists at its path, the call returns the path
\* in that step: no GET request is issued (none at all if it is the first
\* attempt) and no file or directory is written, created or deleted.
C1_CacheGuard ==
    [][\A p \in Procs : \A u \in Units :
          (/\ task[p][u].pc \in {"new", "sleep"}
           /\ task'[p][u].attempt = task[p][u].attempt + 1
           /\ disk[ParquetPath(u)] # "absent")
          => /\ task'[p][u].pc = (IF dataType = "klines" THEN "agg" ELSE "ok")
             /\ task'[p][u].reqs = task[p][u].reqs
             /\ task[p][u].pc = "new" => task'[p][u].reqs = 0
             /\ disk' = disk
             /\ dirs' = dirs]_vars

\* C1 witness: a call that found the artifact at its start has returned the
\* path without a request.
C1_Witness ==
    \E p \in Procs : \E u \in Units :
        /\ dataType # "klines"
        /\ u \in cached[p]
        /\ task[p][u].pc = "ok"
        /\ task[p][u].attempt = 1
        /\ task[p][u].reqs = 0

\* a step of process p sends a GET request for unit u
Requests(p, u) == task'[p][u].reqs > task[p][u].reqs

\* C2 as stated: in a second run of dump_symbols over the same arguments no
\* unit issues a request and nothing is written, whatever the first run's
\* outcome for the unit was.
C2_RerunNoWork ==
    [][\A p \in Procs :
          (runs[p] >= 2 /\ runs'[p] = runs[p])
          => /\ \A u \in Units : ~Requests(p, u)
             /\ disk' = disk
             /\ dirs' = dirs]_vars

\* C2 amended: in a second run, a unit whose artifact was on disk when the
\* run started issues no request, none of its files or directories is
\* written, created or deleted, and its artifact stays as it was.
C2_RerunCached ==
    [][\A p \in Procs : \A u \in cached[p] :
          (runs[p] >= 2 /\ runs'[p] = runs[p])
          => /\ ~Requests(p, u)
             /\ UnitFilesUnchanged(u)
             /\ disk'[Artifact(u)] = "complete"]_vars

\* C2 witness: the second run has ended a unit whose artifact the first run
\* left, without a request.
C2_Witness ==
    \E p \in Procs : \E u \in cached[p] :
        /\ runs[p] = 2
        /\ task[p][u].pc \in {"ok", "skipped"}
        /\ task[p][u].attempt = 1
        /\ task[p][u].reqs = 0
        /\ disk[Artifact(u)] = "complete"

\* s is non-decreasing and never above the ceiling
BackoffShape(s) ==
    /\ \A i \in 1..Len(s) : s[i] <= WaitMax
    /\ \A i \in 2..Len(s) : s[i - 1] <= s[i]

\* C5: retry bound.  A coroutine that got a status of the retry list on
\* every attempt and has ended made exactly 5 requests and raised
\* RetryError, after sleeps of 4, 8, 16 and 32 seconds; the sleeps of any
\* coroutine are non-decreasing and at most 64.
C5_RetryBound ==
    \A p \in Procs : \A u \in Units :
        LET t == task[p][u] IN
        /\ BackoffShape(t.waits)
        /\ (t.onlyRetryable /\ t.pc \in Terminal)
           => /\ t.pc = "failed"
              /\ t.err = "RetryError"
              /\ t.attempt = 5
              /\ t.reqs = 5
              /\ t.waits = <<4, 8, 16, 32>>

\* C5 witness: such a coroutine has given up.
C5_Witness ==
    \E p \in Procs : \E u \in Units :
        /\ task[p][u].onlyRetryable
        /\ task[p][u].pc = "failed"
        /\ task[p][u].status \in RetryableStatuses
        /\ task[p][u].reqs = 5

\* C6: not found.  A response with status 404 ends the coroutine at once
\* with no path: nothing is raised, no sleep is asked for and no further
\* request is sent, so a unit whose first response is 404 made one request.
C6_NotFound ==
    \A p \in Procs : \A u \in Units :
        LET t == task[p][u] IN
        t.status = 404
        => /\ t.pc = "notfound"
           /\ t.exc = None
           /\ t.err = None
           /\ t.reqs = t.attempt
           /\ Len(t.waits) = t.attempt - 1
           /\ t.attempt = 1 => (t.reqs = 1 /\ t.waits = <<>>)

\* C6 witness: a unit ended not found after a single request.
C6_Witness ==
    \E p \in Procs : \E u \in Units :
        /\ task[p][u].status = 404
        /\ task[p][u].pc = "notfound"
        /\ task[p][u].reqs = 1

\* C7 as stated: an attempt that ended with an error status outside the
\* retry list, or with a payload that does not parse, is the last one: the
\* exception is what the coroutine raises, and no sleep follows.
C7_FatalNotRetried ==
    \A p \in Procs : \A u \in Units :
        LET t == task[p][u] IN
        t.exc \in {"ClientResponseError", "ParserError"}
        => /\ t.pc = "failed"
           /\ t.err = t.exc
           /\ Len(t.waits) = t.attempt - 1

\* C9 as stated: for every data kind a failed unit is logged by
\* dump_symbols, never raised to its caller, and dump_symbols goes through
\* all the symbols it was given.
C9_FailureStaysInside ==
    \A p \in Procs :
        /\ dpc[p] # "raised"
        /\ dpc[p] = "returned" => symIdx[p] = Len(Work)

====
